---- MODULE Spec2Model ----
(***************************************************************************)
(* Model of ksm.Model (src/ksm/ksm.py): the kilonova surrogate model.      *)
(*                                                                         *)
(* A Model object is built once (Init) and then called by a sampler: each  *)
(* call is one action that runs the whole method and leaves its outcome in *)
(* the call record (op, args, latents, locals, ret, exc, decoder_calls,    *)
(* decoded_rows); Return hands the outcome to the caller, who may call     *)
(* again.                                                                  *)
(*                                                                         *)
(* Numbers.  An array is a record [dtype, vals]; its values are integers  *)
(* (a float64 array holds them as floats).  A float that is not an integer *)
(* is kept exact: a rational is a record [num, den] in lowest terms, a     *)
(* spectrum is a power of ten with a rational exponent, and a magnitude is *)
(* num / den + k4pi * 2.5 * log10(4 pi), the irrational part carried as    *)
(* the coefficient k4pi.  Python's 0-based indices are 1-based here.       *)
(***************************************************************************)
EXTENDS Integers, Sequences, FiniteSets, TLC

VARIABLES
    filters_loaded,   \* self.filters_loaded
    filter_library,   \* self.filter_library: [set |-> FALSE] when the attribute was never assigned
    observations,     \* self.observations: NoneVal or an Observations record
    pc,               \* "idle": the caller may call; "returned": a call has just finished
    op,               \* the method that ran
    args,             \* its arguments
    latents,          \* the latent vectors torch.randn drew during the call
    locals,           \* magnitude_predictions of the likelihood adapters
    ret,              \* the value returned (NoneVal when the call raised)
    exc,              \* the exception raised ("None" when the call returned)
    decoder_calls,    \* invocations of nn_model.decoder during the call
    decoded_rows,     \* rows of the batch handed to each decoder invocation
    last              \* history: the preceding call, kept when the caller is about to
                      \* repeat predict_spectra on the same arguments or to call
                      \* prior_transform_dynesty again

vars == <<filters_loaded, filter_library, observations, pc, op, args, latents,
          locals, ret, exc, decoder_calls, decoded_rows, last>>

model_vars == <<filters_loaded, filter_library, observations>>

-----------------------------------------------------------------------------
(* Bounds of the model *)

MaxTimes == 3     \* longest times array handed to predict_spectra
MaxObs == 2       \* longest times/filters array of predict_magnitudes and of an Observations
UGrid == 4        \* unit-cube coordinates are k / UGrid, k in 0..UGrid

-----------------------------------------------------------------------------
(* Values *)

NoneVal == [none |-> TRUE]

NegInf == [kind |-> "-inf"]

RECURSIVE SeqSum(_)
SeqSum(s) == IF s = <<>> THEN 0 ELSE Head(s) + SeqSum(Tail(s))

RECURSIVE Pow10(_)
Pow10(k) == IF k <= 0 THEN 1 ELSE 10 * Pow10(k - 1)

Abs(n) == IF n < 0 THEN -n ELSE n

RECURSIVE GCD(_, _)
GCD(a, b) == IF b = 0 THEN a ELSE GCD(b, a % b)

\* the float n / d (d # 0), in lowest terms with a positive denominator
Rat(n, d) ==
    LET g == GCD(Abs(n), Abs(d))
        s == IF d < 0 THEN -1 ELSE 1
    IN  [num |-> (s * n) \div g, den |-> (s * d) \div g]

RatAdd(a, b) == Rat(a.num * b.den + b.num * a.den, a.den * b.den)

RatMul(a, b) == Rat(a.num * b.num, a.den * b.den)

\* conversion of a float to int64: truncation toward zero
Trunc(n, d) == IF n >= 0 THEN n \div d ELSE -((-n) \div d)

\* floor(log10(n / d)) for n >= d > 0
RECURSIVE FloorLog10(_, _)
FloorLog10(n, d) == IF n < 10 * d THEN 0 ELSE 1 + FloorLog10(n, 10 * d)

\* whether n is a power of ten
RECURSIVE IsPow10(_)
IsPow10(n) == IF n = 1 THEN TRUE ELSE IF n < 10 \/ n % 10 # 0 THEN FALSE ELSE IsPow10(n \div 10)

\* np.log10 of the float q: a rational where q is a power of ten, else kept as
\* the symbol log10(q) (which stands for -inf when q = 0 and for nan when q < 0)
Log10(q) ==
    IF q.num > 0 /\ q.den = 1 /\ IsPow10(q.num) THEN Rat(FloorLog10(q.num, 1), 1)
    ELSE IF q.num = 1 /\ IsPow10(q.den) THEN Rat(-FloorLog10(q.den, 1), 1)
    ELSE [log10 |-> q]

\* the array f written out as a sequence, each entry computed once
AsSeq(f) == f \o <<>>

\* all sequences over S of length 0..n
SeqsUpTo(S, n) == UNION {[1..k -> S] : k \in 0..n}

-----------------------------------------------------------------------------
(* Metadata file of the model (json.load, lines 24-35) *)

input_size == 3

\* x_transforms[i] = <<lo, hi>> of input dimension i (two physical parameters, then time)
x_transforms == << <<0, 3>>, <<-2, 2>>, <<0, 4>> >>

x_transform_rules == <<FALSE, TRUE, FALSE>>

\* <<offset, lo, hi>>
y_transforms == <<0, 1, 2>>

num_samples == 10

-----------------------------------------------------------------------------
(* Filter directory and filter library (lines 42-57) *)

Dtypes == {"float64", "int64"}

\* dtype of np.hstack of two arrays
Promote(d1, d2) == IF d1 = "int64" /\ d2 = "int64" THEN "int64" ELSE "float64"

\* what uninitialised memory can hold (np.empty_like)
Garbage == {-999, 999}

gF == <<"g">>
rF == <<"r">>
zF == <<"z">>

\* file names of the filter directory, as character sequences
FilterDirListing ==
    { <<"g", ".", "d", "a", "t">>,
      <<"r", ".", "d", "a", "t">>,
      <<"n", "o", "t", "e", "s", ".", "t", "x", "t">> }

EndsWithDat(f) == Len(f) >= 3 /\ SubSeq(f, Len(f) - 2, Len(f)) = <<"d", "a", "t">>

\* f[:-4]
StripSuffix(f) == SubSeq(f, 1, Len(f) - 4)

\* The pyphot Filter built from a file: its transmission in the single wavelength
\* bin of the model grid, and the AB zero point in magnitudes.
Filter(name) ==
    IF name = gF THEN [name |-> name, transmission |-> 1, AB_zero_mag |-> 1]
                 ELSE [name |-> name, transmission |-> 10, AB_zero_mag |-> 2]

LoadFilterLibrary(listing) ==
    [set |-> TRUE,
     dict |-> [name \in {StripSuffix(f) : f \in {g \in listing : EndsWithDat(g)}} |->
                  Filter(name)]]

\* Model.__init__: the attributes the constructor assigns
Construct(filter_library_path, obs) ==
    /\ IF filter_library_path # NoneVal
       THEN /\ filter_library = LoadFilterLibrary(filter_library_path.listing)
            /\ filters_loaded = TRUE
       ELSE /\ filter_library = [set |-> FALSE]
            /\ filters_loaded = FALSE
    /\ observations = obs

FilterDir == [listing |-> FilterDirListing]

\* no call has been made yet
NoCall ==
    /\ pc = "idle"
    /\ op = "none"
    /\ args = NoneVal
    /\ latents = <<>>
    /\ locals = NoneVal
    /\ ret = NoneVal
    /\ exc = "None"
    /\ decoder_calls = 0
    /\ decoded_rows = 0
    /\ last = NoneVal

-----------------------------------------------------------------------------
(* numpy helpers *)

\* insert v into the ascending sequence s
RECURSIVE Insert(_, _)
Insert(v, s) ==
    IF s = <<>> THEN <<v>>
    ELSE IF v <= Head(s) THEN <<v>> \o s
    ELSE <<Head(s)>> \o Insert(v, Tail(s))

RECURSIVE Sort(_)
Sort(s) == IF s = <<>> THEN <<>> ELSE Insert(Head(s), Sort(Tail(s)))

\* drop the repeats of an ascending sequence
RECURSIVE DropRepeats(_)
DropRepeats(s) ==
    IF Len(s) <= 1 THEN s
    ELSE IF s[1] = s[2] THEN DropRepeats(Tail(s))
    ELSE <<s[1]>> \o DropRepeats(Tail(s))

UniqueKeepRepeats(ar) == Sort(ar)

\* np.unique: the sorted distinct values
Unique(ar) == DropRepeats(Sort(ar))

\* np.searchsorted(a, v), side='left': the number of entries of a below v (0-based index)
SearchSorted(a, v) == Cardinality({j \in DOMAIN a : a[j] < v})

\* np.where(ar == v)[0], ascending
RECURSIVE WhereFrom(_, _, _)
WhereFrom(ar, v, i) ==
    IF i > Len(ar) THEN <<>>
    ELSE (IF ar[i] = v THEN <<i>> ELSE <<>>) \o WhereFrom(ar, v, i + 1)

Where(ar, v) == WhereFrom(ar, v, 1)

\* np.mean(..., dtype='double'): the float sum / len
Mean(s) == Rat(SeqSum(s), Len(s))

-----------------------------------------------------------------------------
(* The normalizer, the decoder and the unit conversion *)

\* one coordinate of physical_inputs_to_nn: rule FALSE gives the float
\* (x - lo) / (hi - lo), rule TRUE its log10
Normalise(i, x) ==
    LET q == Rat(x - x_transforms[i][1], x_transforms[i][2] - x_transforms[i][1])
    IN  IF x_transform_rules[i] THEN Log10(q) ELSE q

\* param_matrix_new[i] = ...: the float v stored into an array of dtype; an int64
\* array keeps v truncated toward zero, and what it keeps of -inf and nan is not
\* defined
Store(dtype, v, garbage) ==
    IF dtype # "int64" THEN v
    ELSE IF "log10" \notin DOMAIN v THEN Rat(Trunc(v.num, v.den), 1)
    ELSE IF v.log10.num <= 0 THEN Rat(garbage, 1)
    ELSE IF v.log10.num >= v.log10.den
         THEN Rat(FloorLog10(v.log10.num, v.log10.den), 1)
         ELSE Rat(-FloorLog10(v.log10.den, v.log10.num), 1)

\* physical_inputs_to_nn (lines 130-141): param_matrix is [dtype, rows]; the result
\* has its dtype and shape, and the columns the rules do not reach stay as
\* np.empty_like left them
physical_inputs_to_nn(param_matrix, garbage) ==
    [dtype |-> param_matrix.dtype,
     rows |-> AsSeq([r \in DOMAIN param_matrix.rows |->
                  AsSeq([i \in DOMAIN param_matrix.rows[r] |->
                      IF i <= Len(x_transform_rules)
                      THEN Store(param_matrix.dtype,
                                 Normalise(i, param_matrix.rows[r][i]), garbage)
                      ELSE Rat(garbage, 1)])])]

\* what the decoder reads of one normalised coordinate
Code(c) == IF "log10" \in DOMAIN c THEN c.log10.num + c.log10.den + 1 ELSE c.num + c.den

\* nn_model.decoder on one row cat(z, nn_row): a deterministic function of the
\* latent vector and the normalised row, in inference mode
Decoder(z, nn_row) ==
    (z + SeqSum([i \in DOMAIN nn_row |-> (2 - (i % 2)) * Code(nn_row[i])])) % 3

\* 10. ** (y * (hi - lo) + lo) - offset: the power of ten is kept as its exponent
spectra_to_real_units(y) ==
    [pow10 |-> RatAdd(RatMul(y, Rat(y_transforms[3] - y_transforms[2], 1)),
                      Rat(y_transforms[2], 1)),
     minus |-> y_transforms[1]]

\* torch.randn(1, latent_units): the values a draw can take
Latents == {0, 1}

\* The num_samples draws of one predict_spectra call, up to their order: the mean
\* over the samples (line 81) does not depend on the order of the draws, so each
\* multiset of draws is listed once, ascending.
LatentDraws ==
    {zs \in [1..num_samples -> Latents] :
        \A i \in 1..(num_samples - 1) : zs[i] <= zs[i + 1]}

\* np.hstack((np.repeat(physical_parameters.reshape(1, -1), n, axis=0),
\*            unique_times.reshape(-1, 1)))
HStack(physical_parameters, times_dtype, unique_times) ==
    [dtype |-> Promote(physical_parameters.dtype, times_dtype),
     rows |-> AsSeq([k \in DOMAIN unique_times |->
                        physical_parameters.vals \o <<unique_times[k]>>])]

\* lines 74-79: the decodings of the rows of nn_input, one per drawn latent vector
Reconstructions(nn_input, zs) ==
    AsSeq([k \in DOMAIN nn_input.rows |->
              AsSeq([i \in 1..num_samples |-> Decoder(zs[i], nn_input.rows[k])])])

\* line 81: the mean over the samples, in real units
SpectraNN(reconstructions) ==
    AsSeq([k \in DOMAIN reconstructions |->
              spectra_to_real_units(Mean(reconstructions[k]))])

\* the spectrum s with the exponent e added to its exponent
Accumulated(e, s) == [s EXCEPT !.pow10 = RatAdd(e, @)]

\* Mutant of predict_spectra: the reconstructions of the preceding call are not
\* cleared, so each mean adds to the one the preceding call left.
predict_spectra_accumulating(physical_parameters, times, zs, garbage) ==
    LET unique_times == Unique(times.vals)
        all_data_input == HStack(physical_parameters, times.dtype, unique_times)
        spectra_nn == SpectraNN(Reconstructions(
                          physical_inputs_to_nn(all_data_input, garbage), zs))
        carried(k) == IF last # NoneVal /\ last.op = "predict_spectra"
                         /\ k \in DOMAIN last.ret.spectra_nn
                      THEN last.ret.spectra_nn[k].pow10 ELSE Rat(0, 1)
    IN  [spectra_nn |-> AsSeq([k \in DOMAIN unique_times |->
                                  Accumulated(carried(k), spectra_nn[k])]),
         unique_times |-> unique_times,
         decoder_calls |-> num_samples,
         decoded_rows |-> Len(unique_times)]

\* predict_spectra (lines 64-82)
predict_spectra(physical_parameters, times, zs, garbage) ==
    LET unique_times == Unique(times.vals)
        all_data_input == HStack(physical_parameters, times.dtype, unique_times)
        nn_input == physical_inputs_to_nn(all_data_input, garbage)
        reconstructions == Reconstructions(nn_input, zs)
        spectra_nn == SpectraNN(reconstructions)
    IN  [spectra_nn |-> spectra_nn,
         unique_times |-> unique_times,
         decoder_calls |-> num_samples,
         decoded_rows |-> Len(reconstructions)]

-----------------------------------------------------------------------------
(* Observations (ksm.observations.Observations): parallel arrays, the labels of *)
(* the filters in use, the indices of the upper limits and the distance         *)

\* ord() of the characters of the filter labels
Ord(c) == IF c = "g" THEN 103 ELSE IF c = "r" THEN 114 ELSE 122

Chr(n) == IF n = 103 THEN "g" ELSE IF n = 114 THEN "r" ELSE "z"

\* np.unique on an array of one-character labels: Python orders them by code point
UniqueLabels(filters) ==
    LET codes == Unique([i \in DOMAIN filters |-> Ord(filters[i][1])])
    IN  [k \in DOMAIN codes |-> <<Chr(codes[k])>>]

\* the orders in which a set of labels can be listed
Orderings(S) ==
    {q \in [1..Cardinality(S) -> S] : \A i, j \in DOMAIN q : i # j => q[i] # q[j]}

Range(s) == {s[i] : i \in DOMAIN s}

\* the ascending sequence of a set of indices
RECURSIVE Ascending(_)
Ascending(S) ==
    IF S = {} THEN <<>>
    ELSE LET m == CHOOSE x \in S : \A y \in S : x <= y
         IN  <<m>> \o Ascending(S \ {m})

ObsTimeValues == {1, 2}

\* the Observations objects of the magnitude specification: every time, label and
\* order of filters_unique; no upper limits
ObservationsBasic ==
    UNION { { [times |-> [dtype |-> d, vals |-> t],
               filters |-> f,
               filters_unique |-> fu,
               data_magnitudes |-> [i \in 1..n |-> Rat(0, 1)],
               magnitude_errors |-> [i \in 1..n |-> 0],
               upper_limit_indices |-> <<>>,
               distance |-> 10] :
              d \in Dtypes, t \in [1..n -> ObsTimeValues],
              fu \in Orderings(Range(f)) } :
            <<n, f>> \in { <<Len(g), g>> : g \in SeqsUpTo({gF, rF, zF}, MaxObs) } }

\* an observed magnitude with its error, in magnitudes
Measurements == { [data |-> Rat(2, 1), err |-> 0], [data |-> Rat(-5, 2), err |-> 1] }

\* the Observations objects of the likelihood specification: every measurement and
\* set of upper limits, over filters of the library, at times 1, 2, 1, ...
ObservationsFull ==
    UNION { { [times |-> [dtype |-> "float64", vals |-> [i \in 1..n |-> 1 + ((i - 1) % 2)]],
               filters |-> f,
               filters_unique |-> fu,
               data_magnitudes |-> [i \in 1..n |-> m[i].data],
               magnitude_errors |-> [i \in 1..n |-> m[i].err],
               upper_limit_indices |-> Ascending(ul),
               distance |-> 10] :
              fu \in Orderings(Range(f)), m \in [1..n -> Measurements],
              ul \in SUBSET (1..n) } :
            <<n, f>> \in { <<Len(g), g>> : g \in SeqsUpTo({gF, rF}, MaxObs) } }

-----------------------------------------------------------------------------
(* predict_magnitudes (lines 84-128) *)

\* np.empty_like: an array of the dtype and length of ar, holding whatever the
\* memory held
EmptyLike(ar, garbage) ==
    AsSeq([i \in DOMAIN ar.vals |-> [num |-> garbage, den |-> 1, k4pi |-> 0]])

\* 2.5 * log10(4 * pi) = 2.7480246600..., in millionths, rounded down
K4PiMicro == 2748024

\* the magnitude m = num / den + k4pi * 2.5 * log10(4 pi) from below, as the
\* fraction num / den of integers; no magnitude of the model lies within a
\* millionth of the values it is compared with
FromBelow(m) ==
    [num |-> m.num * Pow10(6) + m.k4pi * K4PiMicro * m.den, den |-> m.den * Pow10(6)]

\* magnitude m < float d
MagLess(m, d) == FromBelow(m).num * d.den < d.num * FromBelow(m).den

\* storing a float64 magnitude into an int64 array: truncation toward zero
CastToInt(m) == [num |-> Trunc(FromBelow(m).num, FromBelow(m).den), den |-> 1, k4pi |-> 0]

CastTo(dtype, m) == IF dtype = "int64" THEN CastToInt(m) ELSE m

\* one spectrum over 4 * pi * d2: over4pi is the divisor over 4 pi
Over4Pi(spectrum, d2) == [pow10 |-> spectrum.pow10, minus |-> spectrum.minus, over4pi |-> d2]

\* spectra_from_nn / (4 * np.pi * distance ** 2)
SpectraAtDistance(spectra_from_nn, distance) ==
    AsSeq([k \in DOMAIN spectra_from_nn |-> Over4Pi(spectra_from_nn[k], distance * distance)])

\* pyphot Filter.get_flux of a photon-counting filter: the mean of the spectrum
\* weighted by wavelength * transmission, integral(l T f) / integral(l T), over the
\* single wavelength bin (the transmission is a power of ten)
get_flux(ff, spectrum) ==
    LET lT == Rat(FloorLog10(ff.transmission, 1), 1)
    IN  [spectrum EXCEPT !.pow10 = RatAdd(RatAdd(@, lT), Rat(-lT.num, 1))]

\* -2.5 * np.log10(flux) - ff.AB_zero_mag for the flux 10 ** e / (4 pi d2), d2 a
\* power of ten: -2.5 * (e - log10(d2)) - AB_zero_mag + 2.5 * log10(4 pi).  The
\* offset the metadata subtracts from the spectrum (minus) is 0.
Magnitude(ff, spectrum) ==
    LET flux == get_flux(ff, spectrum)
        e == RatAdd(flux.pow10, Rat(-FloorLog10(flux.over4pi, 1), 1))
        q == RatAdd(RatMul(Rat(-5, 2), e), Rat(-ff.AB_zero_mag, 1))
    IN  [num |-> q.num, den |-> q.den, k4pi |-> 1]

\* Mutant of FilterGroups: a label that is not in the library is skipped.
RECURSIVE FilterGroupsSkipUnknown(_, _, _, _, _, _, _)
FilterGroupsSkipUnknown(filters_unique, k, times, filters, spectra_at_distance, unique_times, magnitudes) ==
    IF k > Len(filters_unique) THEN [exc |-> "None", magnitudes |-> magnitudes]
    ELSE
      LET f == filters_unique[k]
          filter_indices == Where(filters, f)
      IN  IF ~filter_library.set
            THEN [exc |-> "AttributeError", magnitudes |-> magnitudes]
          ELSE IF f \notin DOMAIN filter_library.dict
            THEN FilterGroupsSkipUnknown(filters_unique, k + 1, times, filters,
                                         spectra_at_distance, unique_times, magnitudes)
          ELSE
            LET ff == filter_library.dict[f]
                assigned ==
                    AsSeq([i \in DOMAIN magnitudes |->
                        IF filters[i] = f
                        THEN CastTo(times.dtype,
                                    Magnitude(ff, spectra_at_distance[
                                        SearchSorted(unique_times, times.vals[i]) + 1]))
                        ELSE magnitudes[i]])
            IN  FilterGroupsSkipUnknown(filters_unique, k + 1, times, filters,
                                        spectra_at_distance, unique_times, assigned)

\* the loop over the filters in use (lines 99-106 and 114-121), from the k-th on
RECURSIVE FilterGroups(_, _, _, _, _, _, _)
FilterGroups(filters_unique, k, times, filters, spectra_at_distance, unique_times, magnitudes) ==
    IF k > Len(filters_unique) THEN [exc |-> "None", magnitudes |-> magnitudes]
    ELSE
      LET f == filters_unique[k]
          filter_indices == Where(filters, f)
          times_of_filter == [j \in DOMAIN filter_indices |-> times.vals[filter_indices[j]]]
          spectra_of_filter ==
              [j \in DOMAIN filter_indices |->
                  spectra_at_distance[SearchSorted(unique_times, times_of_filter[j]) + 1]]
      IN  IF ~filter_library.set
            THEN [exc |-> "AttributeError", magnitudes |-> magnitudes]
          ELSE IF f \notin DOMAIN filter_library.dict
            THEN [exc |-> "KeyError", magnitudes |-> magnitudes]
          ELSE
            LET ff == filter_library.dict[f]
                mag == [j \in DOMAIN filter_indices |-> Magnitude(ff, spectra_of_filter[j])]
                assigned ==
                    AsSeq([i \in DOMAIN magnitudes |->
                        IF \E j \in DOMAIN filter_indices : filter_indices[j] = i
                        THEN CastTo(times.dtype,
                                    mag[CHOOSE j \in DOMAIN filter_indices :
                                            filter_indices[j] = i])
                        ELSE magnitudes[i]])
            IN  FilterGroups(filters_unique, k + 1, times, filters, spectra_at_distance,
                             unique_times, assigned)

\* lines 96-106 and 110-121: the photometry of the decoded spectra ps
Photometry(ps, times, filters, filters_unique, distance, garbage) ==
    LET spectra_at_distance == SpectraAtDistance(ps.spectra_nn, distance)
        magnitudes == EmptyLike(times, garbage)
        loop == FilterGroups(filters_unique, 1, times, filters, spectra_at_distance,
                             ps.unique_times, magnitudes)
    IN  [exc |-> loop.exc,
         ret |-> IF loop.exc = "None"
                 THEN [dtype |-> times.dtype, vals |-> loop.magnitudes]
                 ELSE NoneVal,
         decoder_calls |-> ps.decoder_calls,
         decoded_rows |-> ps.decoded_rows]

\* one branch of predict_magnitudes: decode, scale to the distance, loop over the filters
MagnitudesOf(physical_parameters, times, filters, filters_unique, distance, zs, garbage) ==
    Photometry(predict_spectra(physical_parameters, times, zs, garbage),
               times, filters, filters_unique, distance, garbage)

\* Mutant of predict_magnitudes: with no source of times an empty array is returned.
predict_magnitudes_silent(physical_parameters, times, filters, distance, zs, garbage) ==
    IF observations # NoneVal
    THEN MagnitudesOf(physical_parameters, observations.times, observations.filters,
                      observations.filters_unique, observations.distance, zs, garbage)
    ELSE IF times # NoneVal
    THEN MagnitudesOf(physical_parameters, times, filters, UniqueLabels(filters),
                      distance, zs, garbage)
    ELSE [exc |-> "None", ret |-> [dtype |-> "float64", vals |-> <<>>],
          decoder_calls |-> 0, decoded_rows |-> 0]

\* Mutant of predict_magnitudes: explicit times, when given, come before the
\* Observations.
predict_magnitudes_explicit_first(physical_parameters, times, filters, distance, zs, garbage) ==
    IF times # NoneVal
    THEN MagnitudesOf(physical_parameters, times, filters, UniqueLabels(filters),
                      distance, zs, garbage)
    ELSE IF observations # NoneVal
    THEN MagnitudesOf(physical_parameters, observations.times, observations.filters,
                      observations.filters_unique, observations.distance, zs, garbage)
    ELSE [exc |-> "ValueError", ret |-> NoneVal, decoder_calls |-> 0, decoded_rows |-> 0]

predict_magnitudes(physical_parameters, times, filters, distance, zs, garbage) ==
    IF observations # NoneVal
    THEN MagnitudesOf(physical_parameters, observations.times, observations.filters,
                      observations.filters_unique, observations.distance, zs, garbage)
    ELSE IF times # NoneVal
    THEN MagnitudesOf(physical_parameters, times, filters, UniqueLabels(filters),
                      distance, zs, garbage)
    ELSE [exc |-> "ValueError", ret |-> NoneVal, decoder_calls |-> 0, decoded_rows |-> 0]

-----------------------------------------------------------------------------
(* Likelihood and prior adapters (lines 147-207) *)

Float(n) == [num |-> n, den |-> 1]

\* Mutant of UpperLimitVeto: the comparison is the other way round.
UpperLimitVetoFainter(upper_limit_indices, k, magnitude_predictions, data_magnitudes) ==
    \E j \in DOMAIN upper_limit_indices :
        ~MagLess(magnitude_predictions[upper_limit_indices[j]],
                 data_magnitudes[upper_limit_indices[j]])

\* the loop over upper_limit_indices from the k-th on: TRUE when it returns -inf
RECURSIVE UpperLimitVeto(_, _, _, _)
UpperLimitVeto(upper_limit_indices, k, magnitude_predictions, data_magnitudes) ==
    IF k > Len(upper_limit_indices) THEN FALSE
    ELSE LET i == upper_limit_indices[k]
         IN  IF MagLess(magnitude_predictions[i], data_magnitudes[i]) THEN TRUE
             ELSE UpperLimitVeto(upper_limit_indices, k + 1, magnitude_predictions,
                                 data_magnitudes)

\* A float c0 + c1 * K + c2 * K ** 2 with K = 2.5 * log10(4 pi) is the record of
\* its three rational coefficients.
PolyAdd(a, b) ==
    [c0 |-> RatAdd(a.c0, b.c0), c1 |-> RatAdd(a.c1, b.c1), c2 |-> RatAdd(a.c2, b.c2)]

PolyScale(q, a) == [c0 |-> RatMul(q, a.c0), c1 |-> RatMul(q, a.c1), c2 |-> RatMul(q, a.c2)]

\* np.sum
RECURSIVE PolySum(_)
PolySum(s) ==
    IF s = <<>> THEN [c0 |-> Rat(0, 1), c1 |-> Rat(0, 1), c2 |-> Rat(0, 1)]
    ELSE PolyAdd(Head(s), PolySum(Tail(s)))

\* (pred - data) ** 2 / (err + 1) ** 2 of one point: pred - data = r + k4pi * K
SquaredResidual(pred, data, err) ==
    LET r == Rat(pred.num * data.den - data.num * pred.den, pred.den * data.den)
        w == Rat(1, (err + 1) * (err + 1))
    IN  [c0 |-> RatMul(RatMul(r, r), w),
         c1 |-> RatMul(RatMul(Rat(2 * pred.k4pi, 1), r), w),
         c2 |-> RatMul(Rat(pred.k4pi * pred.k4pi, 1), w)]

\* -0.5 * np.sum((pred - data) ** 2 / (err + 1) ** 2)
GaussianLogLikelihood(magnitude_predictions, data_magnitudes, magnitude_errors) ==
    PolyScale(Rat(-1, 2),
              PolySum([i \in DOMAIN magnitude_predictions |->
                          SquaredResidual(magnitude_predictions[i], data_magnitudes[i],
                                          magnitude_errors[i])]))

\* lines 159-163 and 203-207: the veto loop, then the Gaussian sum
LikelihoodOf(pm) ==
    IF pm.exc # "None"
    THEN [exc |-> pm.exc, ret |-> NoneVal, locals |-> NoneVal]
    ELSE [exc |-> "None",
          ret |-> IF UpperLimitVeto(observations.upper_limit_indices, 1, pm.ret.vals,
                                    observations.data_magnitudes)
                  THEN NegInf
                  ELSE GaussianLogLikelihood(pm.ret.vals, observations.data_magnitudes,
                                             observations.magnitude_errors),
          locals |-> [magnitude_predictions |-> pm.ret.vals]]

NotDecoded(e) ==
    [exc |-> e, ret |-> NoneVal, locals |-> NoneVal,
     decoder_calls |-> 0, decoded_rows |-> 0]

\* compute_likelihood_dynesty (lines 147-163)
compute_likelihood_dynesty(physical_params, zs, garbage) ==
    IF observations = NoneVal THEN NotDecoded("AttributeError")
    ELSE LET pm == predict_magnitudes(physical_params, observations.times,
                                      observations.filters, observations.distance,
                                      zs, garbage)
             lk == LikelihoodOf(pm)
         IN  [exc |-> lk.exc, ret |-> lk.ret, locals |-> lk.locals,
              decoder_calls |-> pm.decoder_calls, decoded_rows |-> pm.decoded_rows]

\* Mutant of prior_transform_dynesty: the bounds the other way round, u * (hi - lo) + lo.
prior_transform_forward(uniform_params) ==
    [exc |-> "None",
     ret |-> [list |->
                 [i \in DOMAIN uniform_params |->
                     [num |-> uniform_params[i].num
                                * (x_transforms[i][2] - x_transforms[i][1])
                              + x_transforms[i][1] * uniform_params[i].den,
                      den |-> uniform_params[i].den]]]]

\* prior_transform_dynesty (lines 165-174): uniform_params[i] is the rational
\* [num, den]; the result is the list of one rational per coordinate
prior_transform_dynesty(uniform_params) ==
    IF \E i \in DOMAIN uniform_params : i \notin DOMAIN x_transforms
    THEN [exc |-> "KeyError", ret |-> NoneVal]
    ELSE [exc |-> "None",
          ret |-> [list |->
                      [i \in DOMAIN uniform_params |->
                          [num |-> uniform_params[i].num
                                     * (x_transforms[i][1] - x_transforms[i][2])
                                   + x_transforms[i][2] * uniform_params[i].den,
                           den |-> uniform_params[i].den]]]]

\* log_prior_emcee (lines 176-187), from the k-th parameter on
RECURSIVE LogPriorFrom(_, _)
LogPriorFrom(physical_params, k) ==
    IF k > Len(physical_params.vals) THEN Float(0)
    ELSE IF x_transforms[k][1] < physical_params.vals[k]
            /\ physical_params.vals[k] < x_transforms[k][2]
         THEN LogPriorFrom(physical_params, k + 1)
         ELSE NegInf

log_prior_emcee(physical_params) == LogPriorFrom(physical_params, 1)

\* np.isfinite
IsFinite(x) == x # NegInf

\* Mutant of log_probability_emcee: the prior is looked at after the magnitudes
\* have been predicted.
log_probability_emcee_late_prior(physical_params, zs, garbage) ==
    LET lk == compute_likelihood_dynesty(physical_params, zs, garbage)
    IN  IF ~IsFinite(log_prior_emcee(physical_params)) /\ lk.exc = "None"
        THEN [lk EXCEPT !.ret = NegInf, !.locals = NoneVal]
        ELSE lk

\* log_probability_emcee (lines 189-207)
log_probability_emcee(physical_params, zs, garbage) ==
    LET prior == log_prior_emcee(physical_params)
    IN  IF ~IsFinite(prior)
        THEN [exc |-> "None", ret |-> NegInf, locals |-> NoneVal,
              decoder_calls |-> 0, decoded_rows |-> 0]
        ELSE IF observations = NoneVal THEN NotDecoded("AttributeError")
        ELSE LET pm == predict_magnitudes(physical_params, observations.times,
                                          observations.filters, observations.distance,
                                          zs, garbage)
                 lk == LikelihoodOf(pm)
             IN  [exc |-> lk.exc, ret |-> lk.ret, locals |-> lk.locals,
                  decoder_calls |-> pm.decoder_calls, decoded_rows |-> pm.decoded_rows]

-----------------------------------------------------------------------------
(* Inputs *)

TimeValues == {1, 2, 3}

\* the times arrays handed to predict_spectra
SpectraTimes ==
    {[dtype |-> d, vals |-> t] : d \in Dtypes, t \in SeqsUpTo(TimeValues, MaxTimes)}

\* parameter vectors the samplers hand to the adapters: on and inside the bounds
PhysicalParams ==
    {[dtype |-> "float64", vals |-> <<a, b>>] : a \in {0, 1, 2}, b \in {0, 2}}

\* the parameter arrays handed to predict_spectra and predict_magnitudes
DecodeParams ==
    {[dtype |-> "float64", vals |-> <<2, 2>>], [dtype |-> "int64", vals |-> <<1, 0>>]}

\* the parameter vectors the likelihood is evaluated at
LikelihoodParams ==
    {[dtype |-> "float64", vals |-> <<1, 0>>], [dtype |-> "float64", vals |-> <<2, 2>>]}

-----------------------------------------------------------------------------
(* Actions *)

\* The caller takes the outcome; the next call starts from a clean call record.
\* The history keeps a predict_spectra call exactly when the caller goes on to
\* repeat it, and every prior_transform_dynesty call.
Return ==
    /\ pc = "returned"
    /\ pc' = "idle"
    /\ last' \in IF op = "predict_spectra"
                  THEN {NoneVal, [op |-> op, args |-> args, latents |-> latents, ret |-> ret]}
                  ELSE IF op = "prior_transform_dynesty"
                  THEN {[op |-> op, args |-> args, latents |-> latents, ret |-> ret]}
                  ELSE {NoneVal}
    /\ op' = "none"
    /\ args' = NoneVal
    /\ latents' = <<>>
    /\ locals' = NoneVal
    /\ ret' = NoneVal
    /\ exc' = "None"
    /\ decoder_calls' = 0
    /\ decoded_rows' = 0
    /\ UNCHANGED model_vars

\* whether the history holds a call of method o with arguments a
SameCall(h, o, a) == h # NoneVal /\ h.op = o /\ h.args = a

PredictSpectraCall ==
    /\ pc = "idle"
    /\ \E p \in DecodeParams, t \in SpectraTimes :
        /\ last # NoneVal => SameCall(last, "predict_spectra",
                                      [physical_parameters |-> p, times |-> t])
        /\ \E zs \in LatentDraws, garbage \in Garbage :
          \E r \in {predict_spectra(p, t, zs, garbage)} :
          /\ op' = "predict_spectra"
          /\ args' = [physical_parameters |-> p, times |-> t]
          /\ latents' = zs
          /\ ret' = [spectra_nn |-> r.spectra_nn, unique_times |-> r.unique_times]
          /\ decoder_calls' = r.decoder_calls
          /\ decoded_rows' = r.decoded_rows
          /\ last' = last
    /\ exc' = "None"
    /\ locals' = NoneVal
    /\ pc' = "returned"
    /\ UNCHANGED model_vars

InitSpectra ==
    /\ Construct(NoneVal, NoneVal)
    /\ NoCall

NextSpectra == PredictSpectraCall \/ Return

SpecSpectra == InitSpectra /\ [][NextSpectra]_vars

NoArgs == [times |-> NoneVal, filters |-> NoneVal, distance |-> NoneVal]

\* the explicit (times, filters, distance) a caller passes
ExplicitArgs ==
    UNION { { [times |-> [dtype |-> d, vals |-> t], filters |-> f, distance |-> dist] :
              d \in Dtypes, t \in [1..Len(f) -> ObsTimeValues], dist \in {1, 10} } :
            f \in SeqsUpTo({gF, rF, zF}, MaxObs) }

\* the arguments of the Observations itself (lines 156-158 and 200-202)
OwnArgs(obs) == [times |-> obs.times, filters |-> obs.filters, distance |-> obs.distance]

\* What the caller passes.  A caller that bound an Observations passes nothing, the
\* arrays of the Observations, or arrays that differ from them in length, labels,
\* dtype and distance.
CallerArgs ==
    IF observations = NoneVal
    THEN {NoArgs} \cup ExplicitArgs
    ELSE {NoArgs, OwnArgs(observations),
          [times |-> [dtype |-> "float64", vals |-> <<2, 1, 1>>],
           filters |-> <<zF, gF, rF>>, distance |-> 1]}

PredictMagnitudesCall ==
    /\ pc = "idle"
    /\ \E p \in DecodeParams, a \in CallerArgs, zs \in LatentDraws, garbage \in Garbage :
          \E r \in {predict_magnitudes(p, a.times, a.filters, a.distance, zs, garbage)} :
          /\ op' = "predict_magnitudes"
          /\ args' = [physical_parameters |-> p, times |-> a.times,
                      filters |-> a.filters, distance |-> a.distance]
          /\ latents' = IF r.decoder_calls > 0 THEN zs ELSE <<>>
          /\ ret' = r.ret
          /\ exc' = r.exc
          /\ decoder_calls' = r.decoder_calls
          /\ decoded_rows' = r.decoded_rows
    /\ locals' = NoneVal
    /\ last' = NoneVal
    /\ pc' = "returned"
    /\ UNCHANGED model_vars

\* the models constructed: with and without a filter directory, with and without
\* an Observations (of at most one point when there is no filter directory)
Init ==
    /\ \E path \in {NoneVal, FilterDir}, obs \in {NoneVal} \cup ObservationsBasic :
          /\ (path = NoneVal /\ obs # NoneVal) => Len(obs.filters) <= 1
          /\ Construct(path, obs)
    /\ NoCall

Next == PredictMagnitudesCall \/ Return

Spec == Init /\ [][Next]_vars

\* the outcome of a likelihood adapter, left in the call record
AdapterOutcome(name, p, zs, r) ==
    /\ op' = name
    /\ args' = [physical_params |-> p]
    /\ latents' = IF r.decoder_calls > 0 THEN zs ELSE <<>>
    /\ locals' = r.locals
    /\ ret' = r.ret
    /\ exc' = r.exc
    /\ decoder_calls' = r.decoder_calls
    /\ decoded_rows' = r.decoded_rows
    /\ last' = NoneVal
    /\ pc' = "returned"
    /\ UNCHANGED model_vars

ComputeLikelihoodDynestyCall ==
    /\ pc = "idle"
    /\ \E p \in LikelihoodParams, zs \in LatentDraws, garbage \in Garbage :
          \E r \in {compute_likelihood_dynesty(p, zs, garbage)} :
              AdapterOutcome("compute_likelihood_dynesty", p, zs, r)

LogProbabilityEmceeCall ==
    /\ pc = "idle"
    /\ \E p \in PhysicalParams, zs \in LatentDraws, garbage \in Garbage :
          \E r \in {log_probability_emcee(p, zs, garbage)} :
              AdapterOutcome("log_probability_emcee", p, zs, r)

LogPriorEmceeCall ==
    /\ pc = "idle"
    /\ \E p \in PhysicalParams :
          /\ op' = "log_prior_emcee"
          /\ args' = [physical_params |-> p]
          /\ ret' = log_prior_emcee(p)
    /\ exc' = "None"
    /\ latents' = <<>>
    /\ locals' = NoneVal
    /\ decoder_calls' = 0
    /\ decoded_rows' = 0
    /\ last' = NoneVal
    /\ pc' = "returned"
    /\ UNCHANGED model_vars

\* the points of the unit cube a nested sampler hands over
UnitCube == SeqsUpTo({[num |-> k, den |-> UGrid] : k \in 0..UGrid}, input_size)

PriorTransformDynestyCall ==
    /\ pc = "idle"
    /\ \E u \in UnitCube :
          LET r == prior_transform_dynesty(u) IN
          /\ op' = "prior_transform_dynesty"
          /\ args' = [uniform_params |-> u]
          /\ ret' = r.ret
          /\ exc' = r.exc
    /\ latents' = <<>>
    /\ locals' = NoneVal
    /\ decoder_calls' = 0
    /\ decoded_rows' = 0
    /\ last' = IF last # NoneVal /\ last.op = "prior_transform_dynesty" THEN last ELSE NoneVal
    /\ pc' = "returned"
    /\ UNCHANGED model_vars

InitLik ==
    /\ \E obs \in {NoneVal} \cup ObservationsFull : Construct(FilterDir, obs)
    /\ NoCall

NextLik == ComputeLikelihoodDynestyCall \/ LogProbabilityEmceeCall \/ Return

SpecLik == InitLik /\ [][NextLik]_vars

InitPrior ==
    /\ Construct(NoneVal, NoneVal)
    /\ NoCall

NextPrior == PriorTransformDynestyCall \/ LogPriorEmceeCall \/ Return

SpecPrior == InitPrior /\ [][NextPrior]_vars
-----------------------------------------------------------------------------
(* Properties *)

Returned(name) == pc = "returned" /\ op = name

RatLess(a, b) == a.num * b.den < b.num * a.den

\* the times, filters and distance predict_magnitudes is asked about: those of the
\* bound Observations, else the explicit ones
Requested ==
    IF observations # NoneVal THEN OwnArgs(observations)
    ELSE [times |-> args.times, filters |-> args.filters, distance |-> args.distance]

\* The magnitude of one observation, stated without the grouping: the spectrum
\* decoded for (physical parameters p, time t) under the draws zs, at distance d,
\* through filter f.
ExpectedMagnitude(p, zs, times_dtype, t, f, d) ==
    LET nn_row == physical_inputs_to_nn(HStack(p, times_dtype, <<t>>), 0).rows[1]
        y == Mean([i \in 1..num_samples |-> Decoder(zs[i], nn_row)])
    IN  Magnitude(Filter(f), SpectraAtDistance(<<spectra_to_real_units(y)>>, d)[1])

\* C1: for every valid call of predict_magnitudes (a source of times is available,
\* the library is loaded and holds every requested filter) the call returns an array
\* with one entry per requested observation, and entry i is the magnitude of the
\* spectrum decoded for times[i] through filters[i].
C1_MagnitudesAligned ==
    (/\ Returned("predict_magnitudes")
     /\ Requested.times # NoneVal
     /\ filters_loaded
     /\ \A i \in DOMAIN Requested.filters :
            Requested.filters[i] \in DOMAIN filter_library.dict)
    => /\ exc = "None"
       /\ Len(ret.vals) = Len(Requested.times.vals)
       /\ \A i \in DOMAIN ret.vals :
             ret.vals[i] = ExpectedMagnitude(args.physical_parameters, latents,
                                             Requested.times.dtype,
                                             Requested.times.vals[i],
                                             Requested.filters[i], Requested.distance)

\* C1, for times arrays of dtype float64 only: length and per-index magnitudes hold,
\* whatever the order of filters_unique.
C1_MagnitudesAlignedFloat64 ==
    (/\ Returned("predict_magnitudes")
     /\ Requested.times # NoneVal
     /\ Requested.times.dtype = "float64"
     /\ filters_loaded
     /\ \A i \in DOMAIN Requested.filters :
            Requested.filters[i] \in DOMAIN filter_library.dict)
    => /\ exc = "None"
       /\ Len(ret.vals) = Len(Requested.times.vals)
       /\ \A i \in DOMAIN ret.vals :
             ret.vals[i] = ExpectedMagnitude(args.physical_parameters, latents,
                                             Requested.times.dtype,
                                             Requested.times.vals[i],
                                             Requested.filters[i], Requested.distance)

\* C2: predict_spectra decodes exactly one row per distinct value of times, and the
\* unique_times it returns is strictly ascending and holds exactly the distinct
\* values of times.
C2_Deduplication ==
    Returned("predict_spectra") =>
       /\ decoder_calls = num_samples
       /\ decoded_rows = Cardinality(Range(args.times.vals))
       /\ Len(ret.spectra_nn) = Cardinality(Range(args.times.vals))
       /\ \A i, j \in DOMAIN ret.unique_times :
             i < j => ret.unique_times[i] < ret.unique_times[j]
       /\ Range(ret.unique_times) = Range(args.times.vals)

C2_Witness ==
    /\ Returned("predict_spectra")
    /\ args.times.vals = <<3, 1, 3>>
    /\ ret.unique_times = <<1, 3>>
    /\ decoded_rows = 2

\* C3: compute_likelihood_dynesty returns -inf exactly when some upper-limit index
\* has a predicted magnitude below the observed one, whatever the other residuals;
\* otherwise it returns the finite Gaussian sum over all points.
C3_UpperLimitVeto ==
    (Returned("compute_likelihood_dynesty") /\ exc = "None") =>
       LET m == locals.magnitude_predictions IN
       IF \E i \in Range(observations.upper_limit_indices) :
             MagLess(m[i], observations.data_magnitudes[i])
       THEN ret = NegInf
       ELSE /\ ret # NegInf
            /\ DOMAIN ret = {"c0", "c1", "c2"}
            /\ \A c \in DOMAIN ret : ret[c].den > 0
            /\ ret = GaussianLogLikelihood(m, observations.data_magnitudes,
                                           observations.magnitude_errors)

\* a violated upper limit at index 2 while index 1, not an upper limit, is predicted
\* fainter than observed
C3_Witness ==
    /\ Returned("compute_likelihood_dynesty")
    /\ exc = "None"
    /\ observations.upper_limit_indices = <<2>>
    /\ Len(observations.times.vals) = 2
    /\ MagLess(locals.magnitude_predictions[2], observations.data_magnitudes[2])
    /\ ~MagLess(locals.magnitude_predictions[1], observations.data_magnitudes[1])
    /\ ret = NegInf

\* C4: a model constructed without a filter directory has filters_loaded = FALSE and
\* every predict_magnitudes call on it fails with an error of its own, not with an
\* attribute error (and not by returning).
C4_MissingLibraryError ==
    /\ filters_loaded = filter_library.set
    /\ (Returned("predict_magnitudes") /\ ~filters_loaded)
       => (exc # "None" /\ exc # "AttributeError")

\* C5: two calls of predict_spectra on the same model with the same physical
\* parameters and times return identical results.
C5_Deterministic ==
    (Returned("predict_spectra") /\ last # NoneVal) => ret = last.ret

\* C5, amended: the two calls return the same unique_times and spectra of the same
\* shape, and identical spectra whenever torch.randn drew the same latent vectors.
C5_DeterministicGivenLatents ==
    (Returned("predict_spectra") /\ last # NoneVal) =>
       /\ last.args = args
       /\ ret.unique_times = last.ret.unique_times
       /\ Len(ret.spectra_nn) = Len(last.ret.spectra_nn)
       /\ (latents = last.latents => ret = last.ret)

C5_Witness ==
    /\ Returned("predict_spectra")
    /\ last # NoneVal
    /\ latents = last.latents
    /\ Len(ret.spectra_nn) = 2
    /\ ret = last.ret

\* C6: log_probability_emcee returns -inf without a decoder invocation whenever
\* some parameter is not strictly inside its (lo, hi); otherwise (with an
\* Observations bound) the decoder runs and the result is the log-likelihood of the
\* predicted magnitudes, upper-limit veto included.
C6_PriorShortCircuit ==
    Returned("log_probability_emcee") =>
       LET p == args.physical_params
           rejected == \E i \in DOMAIN p.vals :
                          ~(x_transforms[i][1] < p.vals[i] /\ p.vals[i] < x_transforms[i][2])
       IN  /\ rejected =>
                (ret = NegInf /\ exc = "None" /\ decoder_calls = 0 /\ locals = NoneVal)
           /\ (~rejected /\ observations # NoneVal) =>
                /\ decoder_calls = num_samples
                /\ exc = "None"
                /\ LET m == locals.magnitude_predictions IN
                   /\ \A i \in DOMAIN m :
                        m[i] = ExpectedMagnitude(p, latents, observations.times.dtype,
                                                 observations.times.vals[i],
                                                 observations.filters[i],
                                                 observations.distance)
                   /\ ret = IF \E i \in Range(observations.upper_limit_indices) :
                                  MagLess(m[i], observations.data_magnitudes[i])
                            THEN NegInf
                            ELSE GaussianLogLikelihood(m, observations.data_magnitudes,
                                                       observations.magnitude_errors)

\* a parameter on its upper bound: rejected, nothing decoded
C6_Witness ==
    /\ Returned("log_probability_emcee")
    /\ observations # NoneVal
    /\ Len(observations.times.vals) = 2
    /\ args.physical_params.vals = <<1, 2>>
    /\ ret = NegInf
    /\ decoder_calls = 0

\* C7: with neither an Observations bound nor explicit times, predict_magnitudes
\* raises ValueError, decodes nothing and returns nothing; with a source of times
\* available it does not raise ValueError.
C7_NoSourceRaises ==
    Returned("predict_magnitudes") =>
       /\ (observations = NoneVal /\ args.times = NoneVal)
          => (exc = "ValueError" /\ ret = NoneVal /\ decoder_calls = 0 /\ decoded_rows = 0)
       /\ (observations # NoneVal \/ args.times # NoneVal) => exc # "ValueError"

C7_Witness ==
    /\ Returned("predict_magnitudes")
    /\ observations = NoneVal
    /\ args.times = NoneVal
    /\ filters_loaded
    /\ exc = "ValueError"

\* C8: with the filter library loaded, a predict_magnitudes call that requests a
\* label absent from the library raises KeyError and returns no array.
C8_UnknownFilterRaises ==
    (/\ Returned("predict_magnitudes")
     /\ filters_loaded
     /\ Requested.times # NoneVal
     /\ \E i \in DOMAIN Requested.filters :
            Requested.filters[i] \notin DOMAIN filter_library.dict)
    => (exc = "KeyError" /\ ret = NoneVal)

\* the unknown label comes after a label of the library
C8_Witness ==
    /\ Returned("predict_magnitudes")
    /\ filters_loaded
    /\ observations = NoneVal
    /\ args.times # NoneVal
    /\ args.filters = <<gF, zF>>
    /\ exc = "KeyError"

\* C9: prior_transform_dynesty maps u_i to u_i * (lo_i - hi_i) + hi_i: same length
\* and order as the input, u_i = 0 gives hi_i, u_i = 1 gives lo_i, every u_i of
\* [0, 1] lands in [lo_i, hi_i], and a larger u_i gives a smaller value.
C9_PriorTransform ==
    Returned("prior_transform_dynesty") =>
       LET u == args.uniform_params IN
       /\ exc = "None"
       /\ Len(ret.list) = Len(u)
       /\ \A i \in DOMAIN u :
            LET lo == x_transforms[i][1]
                hi == x_transforms[i][2]
                v == ret.list[i]
            IN  /\ v.den = u[i].den
                /\ v.num = u[i].num * (lo - hi) + hi * u[i].den
                /\ u[i].num = 0 => v.num = hi * v.den
                /\ u[i].num = u[i].den => v.num = lo * v.den
                /\ lo * v.den <= v.num /\ v.num <= hi * v.den
       /\ last # NoneVal =>
            \A i \in DOMAIN u \cap DOMAIN last.args.uniform_params :
                RatLess(last.args.uniform_params[i], u[i])
                => RatLess(ret.list[i], last.ret.list[i])

\* two calls, the second with a larger first coordinate, equal to 1
C9_Witness ==
    /\ Returned("prior_transform_dynesty")
    /\ last # NoneVal
    /\ Len(args.uniform_params) = 3
    /\ Len(last.args.uniform_params) = 3
    /\ args.uniform_params[1].num = UGrid
    /\ last.args.uniform_params[1].num = 1
    /\ ret.list[1].num = x_transforms[1][1] * UGrid
    /\ RatLess(ret.list[1], last.ret.list[1])

\* C10: with an Observations bound, predict_magnitudes ignores the explicit times,
\* filters and distance: the result has one entry per observation of the
\* Observations, each the magnitude (stored in the dtype of observations.times) for
\* observations.times[i], observations.filters[i] at observations.distance, and the
\* decoder sees one row per distinct observation time.
C10_ObservationsTakePrecedence ==
    (Returned("predict_magnitudes") /\ observations # NoneVal) =>
       /\ exc # "ValueError"
       /\ decoder_calls = num_samples
       /\ decoded_rows = Cardinality(Range(observations.times.vals))
       /\ exc = "None" =>
            /\ ret.dtype = observations.times.dtype
            /\ Len(ret.vals) = Len(observations.times.vals)
            /\ \A i \in DOMAIN ret.vals :
                 ret.vals[i] =
                    CastTo(observations.times.dtype,
                           ExpectedMagnitude(args.physical_parameters, latents,
                                             observations.times.dtype,
                                             observations.times.vals[i],
                                             observations.filters[i],
                                             observations.distance))

\* explicit arrays of another length, other labels and another distance are passed
C10_Witness ==
    /\ Returned("predict_magnitudes")
    /\ observations # NoneVal
    /\ Len(observations.times.vals) = 2
    /\ observations.filters = <<rF, gF>>
    /\ args.times # NoneVal
    /\ Len(args.times.vals) = 3
    /\ args.distance = 1
    /\ exc = "None"
    /\ Len(ret.vals) = 2

====
